---- MODULE Spec2Model ----
(***************************************************************************)
(* The build pipeline of editor-layer-index (build.js): buildAll,          *)
(* generateFeatures, generateResources, validateFile, prettifyFile.        *)
(*                                                                         *)
(* build.js exists in two revisions in the source tree: src/build.js and   *)
(* src/unnamed/part_008.  They are identical except for generateResources, *)
(* where part_008 adds the {z} url guard and the `scanex` exemption.  The  *)
(* model follows part_008, the revision that has both.                     *)
(***************************************************************************)
EXTENDS Integers, Sequences, FiniteSets, TLC

(***************************************************************************)
(* Bounds of the model.                                                    *)
(***************************************************************************)
NumFeatureFiles == 2
NumResourceFiles == 2
MaxBuilds == 2
MaxHoles == 1

(***************************************************************************)
(* JavaScript values.                                                      *)
(***************************************************************************)
\* a property that is absent from a parsed document reads as `undefined`
Undefined == "<undefined>"

\* `x ? ... : ...` on an id / featureId read from a document
Truthy(x) == x # Undefined /\ x # ""

\* an object property key: `obj[undefined]` uses the key "undefined"
ToKey(x) == IF x = Undefined THEN "undefined" ELSE x

\* `{}` inherits from Object.prototype: these keys read as (truthy) functions
\* on every object literal, whether or not the object has them as own keys
ObjectPrototypeKeys == {"constructor"}

\* what an inherited property prints as in a diagnostic
InheritedValue == "function Object() { [native code] }"

\* An object used as a map (`features`, `files`, `resources`, `tstrings`) is
\* a sequence of [k, v] entries in insertion order.
HasOwn(obj, key) == \E n \in 1..Len(obj) : obj[n].k = key

OwnValue(obj, key) == obj[CHOOSE n \in 1..Len(obj) : obj[n].k = key].v

\* `obj[key]` is truthy (every stored value is a path or a document)
HasProperty(obj, key) == HasOwn(obj, key) \/ key \in ObjectPrototypeKeys

\* the value `obj[key]` reads, for a key with HasProperty
GetProperty(obj, key) ==
    IF HasOwn(obj, key) THEN OwnValue(obj, key) ELSE InheritedValue

\* `obj[key] = value`
SetProperty(obj, key, value) ==
    IF HasOwn(obj, key)
    THEN [n \in 1..Len(obj) |->
            IF obj[n].k = key THEN [k |-> key, v |-> value] ELSE obj[n]]
    ELSE Append(obj, [k |-> key, v |-> value])

Keys(obj) == {obj[n].k : n \in 1..Len(obj)}

(***************************************************************************)
(* Geometry.  A coordinate is an integer number of millionths of a degree, *)
(* one decimal digit more than the 5 digits the build keeps.  A ring is a  *)
(* sequence of points <<x, y>>, a polygon a sequence of rings (the outer   *)
(* ring first).  A geometry is a record [type, coordinates]: the rings of  *)
(* a Polygon, the polygons of a MultiPolygon.                              *)
(***************************************************************************)
\* millionths per unit of the 5th decimal digit
Step == 10

Abs(x) == IF x < 0 THEN -x ELSE x

\* the mutant of ToFixed5: Math.round, a tie going up
ToFixed5_halfUp(x) == ((x + (Step \div 2)) \div Step) * Step

\* Number.prototype.toFixed(5): to the nearest multiple of Step, a tie going
\* away from zero
ToFixed5(x) ==
    LET q == ((Abs(x) + (Step \div 2)) \div Step) * Step
    IN  IF x < 0 THEN -q ELSE q

Reverse(s) == [n \in 1..Len(s) |-> s[Len(s) + 1 - n]]

\* the signed area sum geojson-rewind takes over the ring's edges
RECURSIVE RingAreaFrom(_, _)
RingAreaFrom(ring, n) ==
    IF n > Len(ring) THEN 0
    ELSE LET j == IF n = 1 THEN Len(ring) ELSE n - 1
         IN  (ring[n][1] - ring[j][1]) * (ring[j][2] + ring[n][2])
               + RingAreaFrom(ring, n + 1)

RingArea(ring) == RingAreaFrom(ring, 1)

\* rewindRing(ring, dir): reverse the ring unless it already winds as asked
RewindRing(ring, dir) ==
    IF (RingArea(ring) >= 0) # dir THEN Reverse(ring) ELSE ring

\* rewind(polygon, outer): the outer ring winds `outer`, every hole the other way
RewindRings(rings, outer) ==
    [n \in 1..Len(rings) |->
        RewindRing(rings[n], IF n = 1 THEN outer ELSE ~outer)]

PrecisionRings(rings) ==
    [n \in 1..Len(rings) |->
        [m \in 1..Len(rings[n]) |->
            <<ToFixed5(rings[n][m][1]), ToFixed5(rings[n][m][2])>>]]

Polygon(rings) == [type |-> "Polygon", coordinates |-> rings]

MultiPolygon(polygons) == [type |-> "MultiPolygon", coordinates |-> polygons]

Point(position) == [type |-> "Point", coordinates |-> position]

\* `geometry: null`, and the geometry a FeatureCollection does not have
NoGeometry == [type |-> "null", coordinates |-> <<>>]

\* precision(rewind(geometry, true), 5) of one geometry
CanonicalizeGeometry(geometry) ==
    CASE geometry.type = "Polygon" ->
           [geometry EXCEPT !.coordinates = PrecisionRings(RewindRings(@, TRUE))]
      [] geometry.type = "MultiPolygon" ->
           [geometry EXCEPT !.coordinates =
              [p \in 1..Len(@) |-> PrecisionRings(RewindRings(@[p], TRUE))]]
      [] geometry.type = "Point" ->
           [geometry EXCEPT !.coordinates = <<ToFixed5(@[1]), ToFixed5(@[2])>>]
      [] OTHER -> geometry

(***************************************************************************)
(* Documents.  A feature document is a record                              *)
(*   [type, id, geometry, features, extra]                                 *)
(* where `features` is the array of a FeatureCollection (empty otherwise)  *)
(* and `extra` says that the document carries a property its schema does   *)
(* not declare.  A resource document is a record                           *)
(*   [id, type, url, featureId, i18n, name, description, attribution,      *)
(*    extra].  A url is the sequence of its parts.                         *)
(***************************************************************************)
\* the mutant of Canonicalize: a polygon keeps its outer ring only
Canonicalize_outerOnly(doc) ==
    LET geometry == CanonicalizeGeometry(doc.geometry)
    IN  [doc EXCEPT !.geometry =
            IF geometry.type = "Polygon"
            THEN [geometry EXCEPT !.coordinates = <<@[1]>>]
            ELSE geometry]

\* precision(rewind(doc, true), 5)
RECURSIVE Canonicalize(_)
Canonicalize(doc) ==
    IF doc.type = "FeatureCollection"
    THEN [doc EXCEPT !.features =
            [n \in 1..Len(doc.features) |-> Canonicalize(doc.features[n])]]
    ELSE [doc EXCEPT !.geometry = CanonicalizeGeometry(doc.geometry)]

\* the mutant of Unwrap: the collection's id always replaces the feature's
Unwrap_overwriteId(feature) ==
    IF feature.type = "FeatureCollection" /\ Len(feature.features) = 1
    THEN IF Truthy(feature.id)
         THEN [feature.features[1] EXCEPT !.id = feature.id]
         ELSE feature.features[1]
    ELSE feature

\* build.js 51-59: a FeatureCollection with a single feature inside
Unwrap(feature) ==
    IF feature.type = "FeatureCollection" /\ Len(feature.features) = 1
    THEN IF Truthy(feature.id) /\ ~Truthy(feature.features[1].id)
         THEN [feature.features[1] EXCEPT !.id = feature.id]
         ELSE feature.features[1]
    ELSE feature

(***************************************************************************)
(* Serialization.  The content of a file is a record [fmt, doc]: the       *)
(* document it parses to and how it is laid out.  JSON.parse forgets the   *)
(* layout; each serializer produces its own.                               *)
(***************************************************************************)
JSONParse(contents) == contents.doc

\* json-stringify-pretty-compact
PrettyStringify(object) == [fmt |-> "pretty", doc |-> object]

\* JSON.stringify
JSONStringify(object) == [fmt |-> "min", doc |-> object]

\* the byte-wise order of the ids the model uses
IdOrder == <<"a", "b", "c", "constructor", "undefined">>

\* the mutant of SortKeys: the keys stay in insertion order
SortKeys_insertionOrder(obj) == obj

\* the entries of a map in the sorted order of their keys
SortKeys(obj) ==
    LET present == [n \in 1..Len(IdOrder) |-> HasOwn(obj, IdOrder[n])]
        RECURSIVE From(_)
        From(n) ==
            IF n > Len(IdOrder) THEN <<>>
            ELSE IF present[n]
                 THEN <<[k |-> IdOrder[n], v |-> OwnValue(obj, IdOrder[n])]>> \o From(n + 1)
                 ELSE From(n + 1)
    IN  From(1)

\* YAML.safeDump(object, { lineWidth: -1, sortKeys: true }) of { en: { imagery: t } }
YAMLSafeDump(t) == [fmt |-> "yaml", doc |-> [en |-> [imagery |-> SortKeys(t)]]]

(***************************************************************************)
(* Schema validation.  The validator is called with schema/feature.json or *)
(* schema/resource.json; it returns the list of violations.                *)
(***************************************************************************)
Violation(property, message) == [property |-> property, message |-> message]

\* v.validate(feature, featureSchema).errors
FeatureViolations(feature) ==
    (IF feature.type # "Feature"
     THEN <<Violation("instance.type", "is not one of enum values: Feature")>>
     ELSE <<>>)
    \o (IF feature.id = Undefined
        THEN <<Violation("instance", "requires property \"id\"")>>
        ELSE <<>>)
    \o (IF feature.extra
        THEN <<Violation("instance", "additionalProperty \"extra\" exists in instance when not allowed")>>
        ELSE <<>>)

\* v.validate(resource, resourceSchema).errors
ResourceViolations(resource) ==
    (IF resource.id = Undefined
     THEN <<Violation("instance", "requires property \"id\"")>>
     ELSE <<>>)
    \o (IF resource.extra
        THEN <<Violation("instance", "additionalProperty \"extra\" exists in instance when not allowed")>>
        ELSE <<>>)

(***************************************************************************)
(* The source tree: the files glob.sync finds, in the order it returns     *)
(* them, and the contents a file may have when the build first reads it.   *)
(* A path is the sequence of its parts.                                    *)
(***************************************************************************)
FeaturePath(n) == <<"/", "features", "/", ToString(n), ".geojson">>

\* the directories under resources/, in sorted order
ResourceDir(n) ==
    CASE n = 1 -> <<"europe">>
      [] n = 2 -> <<"world">>
      [] n = 3 -> <<"world", "wide">>
      [] OTHER -> <<"zone">>

ResourcePath(n) ==
    <<"/", "resources", "/">> \o ResourceDir(n) \o <<"/", ToString(n), ".json">>

FeatureFiles == [n \in 1..NumFeatureFiles |-> FeaturePath(n)]

ResourceFiles == [n \in 1..NumResourceFiles |-> ResourcePath(n)]

SourceFiles ==
    {FeatureFiles[n] : n \in 1..NumFeatureFiles}
        \cup {ResourceFiles[n] : n \in 1..NumResourceFiles}

\* /\/resources\/world/.test(file)
IsWorld(file) ==
    \E n \in 1..(Len(file) - 3) :
        /\ file[n] = "/"
        /\ file[n + 1] = "resources"
        /\ file[n + 2] = "/"
        /\ file[n + 3] = "world"

\* rings, in millionths of a degree
RingCanonical == <<<<0, 0>>, <<0, 20>>, <<20, 20>>, <<20, 0>>, <<0, 0>>>>

RingUnrounded == <<<<0, 0>>, <<21, 3>>, <<18, 24>>, <<-4, 19>>, <<0, 0>>>>

RingThin == <<<<0, 0>>, <<40, 6>>, <<20, 4>>, <<0, 0>>>>

Feature(id, ring, extra) ==
    [type |-> "Feature", id |-> id, geometry |-> Polygon(<<ring>>),
     features |-> <<>>,
     extra |-> extra]

FeatureCollection(id, features) ==
    [type |-> "FeatureCollection", id |-> id, geometry |-> NoGeometry,
     features |-> features, extra |-> FALSE]

\* a file as a contributor left it: any layout, any document
Raw(doc) == [fmt |-> "raw", doc |-> doc]

FeatureContents ==
    { PrettyStringify(Feature("a", RingCanonical, FALSE)),
      Raw(Feature("a", RingCanonical, FALSE)),
      PrettyStringify(Feature("b", RingCanonical, FALSE)),
      Raw(Feature("b", RingUnrounded, FALSE)),
      PrettyStringify(Feature("b", RingThin, FALSE)),
      PrettyStringify(Feature("c", RingCanonical, FALSE)),
      PrettyStringify(Feature("constructor", RingCanonical, FALSE)),
      PrettyStringify(Feature("a", RingCanonical, TRUE)),
      Raw(FeatureCollection("b", <<Feature(Undefined, RingCanonical, FALSE)>>)),
      Raw(FeatureCollection("a", <<Feature("c", RingUnrounded, FALSE)>>)),
      Raw(FeatureCollection("a", <<>>)),
      Raw(FeatureCollection("a", <<Feature("b", RingCanonical, FALSE),
                                   Feature("c", RingCanonical, FALSE)>>)) }

UrlZoom == <<"https://tiles.example/", "{zoom}", "/", "{x}", "/", "{y}", ".png">>

UrlZ == <<"https://tiles.example/", "{z}", "/", "{x}", "/", "{y}", ".png">>

NoAttribution == [text |-> Undefined, url |-> Undefined]

Resource(id, type, url, featureId) ==
    [id |-> id, type |-> type, url |-> url, featureId |-> featureId,
     i18n |-> FALSE, name |-> "Name", description |-> Undefined,
     attribution |-> NoAttribution, extra |-> FALSE]

ResourceContents ==
    { PrettyStringify(Resource("a", "tms", UrlZoom, "a")),
      PrettyStringify(Resource("b", "tms", UrlZoom, "a")),
      PrettyStringify(Resource("c", "tms", UrlZoom, "b")),
      PrettyStringify(Resource("constructor", "tms", UrlZoom, "a")),
      PrettyStringify(Resource("a", "tms", UrlZ, "a")),
      PrettyStringify(Resource("b", "scanex", UrlZ, Undefined)),
      PrettyStringify(Resource("c", "tms", UrlZ, Undefined)),
      PrettyStringify(Resource("b", "tms", UrlZoom, "c")),
      PrettyStringify(Resource("a", "tms", UrlZoom, "constructor")),
      PrettyStringify(Resource("a", "tms", UrlZoom, Undefined)),
      PrettyStringify(Resource("b", "scanex", UrlZoom, Undefined)),
      PrettyStringify(Resource("c", "wms", UrlZoom, Undefined)),
      PrettyStringify([Resource("a", "tms", UrlZoom, "a") EXCEPT !.extra = TRUE]),
      Raw(Resource("a", "tms", UrlZoom, "a")),
      Raw([Resource("b", "wms", UrlZoom, "a") EXCEPT
              !.i18n = TRUE, !.description = "Description",
              !.attribution = [text |-> "Text", url |-> "https://example/"]]),
      PrettyStringify([Resource("c", "tms", UrlZoom, "a") EXCEPT !.i18n = TRUE]) }

(***************************************************************************)
(* The state of a build.                                                   *)
(***************************************************************************)
VARIABLES
    pc,         \* where buildAll is: "clean", "features", "resources", "emit", "exited"
    status,     \* "running", "exit0" or "exit1"
    cursor,     \* the index of the next file of the running forEach, or of the next artifact
    features,   \* generateFeatures: id -> feature
    ffiles,     \* generateFeatures: id -> file
    resources,  \* generateResources: id -> resource
    rfiles,     \* generateResources: id -> file
    tstrings,   \* translation strings: resource id -> strings
    disk,       \* the source files: path -> contents, Unread until first read
    artifacts,  \* dist/*.json and i18n/en.yaml: name -> contents or Absent
    stderr,     \* the diagnostics console.error printed in this build
    build,      \* the number of this build
    captured,   \* per source file, the contents readFileSync returned in this build
    objects,    \* per source file, the document its callback validated in this build
    written,    \* the source files fs.writeFileSync wrote in this build
    emitted,    \* the artifacts fs.writeFileSync wrote in this build
    history,    \* the exit status and the artifacts of every earlier build
    input,      \* the document handed to build.js 50-59 on its own
    output      \* the values its calls returned, in order

vars == <<pc, status, cursor, features, ffiles, resources, rfiles, tstrings,
          disk, artifacts, stderr, build, captured, objects, written, emitted,
          history, input, output>>

Unread == [fmt |-> "unread", doc |-> <<>>]

Absent == [fmt |-> "absent", doc |-> <<>>]

\* what an earlier build left in dist/ and i18n/
Stale == [fmt |-> "stale", doc |-> <<>>]

\* buildAll's five outputs, in the order it writes them
ArtifactNames ==
    <<"dist/features.json", "dist/features.min.json", "dist/resources.json",
      "dist/resources.min.json", "i18n/en.yaml">>

ArtifactSet == {ArtifactNames[n] : n \in 1..Len(ArtifactNames)}

\* the mutant of ArtifactContents: the compact resources aggregate is
\* serialized from an empty index
ArtifactContents_emptyCompact(n) ==
    CASE n = 1 -> PrettyStringify([features |-> features])
      [] n = 2 -> JSONStringify([features |-> features])
      [] n = 3 -> PrettyStringify([resources |-> resources])
      [] n = 4 -> JSONStringify([resources |-> <<>>])
      [] OTHER -> YAMLSafeDump(tstrings)

\* the contents buildAll writes to the n-th artifact
ArtifactContents(n) ==
    CASE n = 1 -> PrettyStringify([features |-> features])
      [] n = 2 -> JSONStringify([features |-> features])
      [] n = 3 -> PrettyStringify([resources |-> resources])
      [] n = 4 -> JSONStringify([resources |-> resources])
      [] OTHER -> YAMLSafeDump(tstrings)

\* the state of a process that has just started
Started ==
    /\ pc = "clean"
    /\ status = "running"
    /\ cursor = 1
    /\ features = <<>>
    /\ ffiles = <<>>
    /\ resources = <<>>
    /\ rfiles = <<>>
    /\ tstrings = <<>>
    /\ disk = [f \in SourceFiles |-> Unread]
    /\ stderr = <<>>
    /\ build = 1
    /\ captured = [f \in SourceFiles |-> Unread]
    /\ objects = [f \in SourceFiles |-> <<>>]
    /\ written = {}
    /\ emitted = {}
    /\ history = <<>>

Init ==
    /\ Started
    /\ artifacts \in {[a \in ArtifactSet |-> Absent], [a \in ArtifactSet |-> Stale]}
    /\ input = <<>>
    /\ output = <<>>

(***************************************************************************)
(* Helpers of the actions.                                                 *)
(***************************************************************************)
\* fs.readFileSync(file): the file's contents; a file nobody has read yet
\* holds any of the contents a contributor may have left
ReadFileSync(file, inputs) ==
    IF disk[file] = Unread THEN inputs ELSE {disk[file]}

Diagnostic(kind, what, files, detail) ==
    [kind |-> kind, what |-> what, files |-> files, detail |-> detail]

\* the mutant of validateFile: a violation is reported but not fatal
validateFile_noExit(file, validationErrors) == FALSE

\* validateFile: TRUE when it prints the schema error and calls process.exit(1)
validateFile(file, validationErrors) == Len(validationErrors) > 0

\* the mutant of prettifyFile: only the layout of the file is compared
prettifyFile_layoutOnly(object, contents) == contents.fmt # "pretty"

\* the mutant of prettifyFile: the file is left as it was read
prettifyFile_never(object, contents) == FALSE

\* the mutant of prettifyFile: writes every file it is given
prettifyFile_always(object, contents) == TRUE

\* prettifyFile: TRUE when it writes PrettyStringify(object) to the file
prettifyFile(object, contents) == PrettyStringify(object) # contents

\* the mutant of Exit1: the error is printed and the build goes on
Exit1_continue(diagnostic) ==
    /\ stderr' = Append(stderr, diagnostic)
    /\ status' = status
    /\ pc' = pc

\* the mutant of Exit1: the failure is recorded and the loop goes on
Exit1_deferred(diagnostic) ==
    /\ stderr' = Append(stderr, diagnostic)
    /\ status' = "exit1"
    /\ pc' = pc

\* process.exit(1) after console.error(diagnostic)
Exit1(diagnostic) ==
    /\ stderr' = Append(stderr, diagnostic)
    /\ status' = "exit1"
    /\ pc' = "exited"

\* the mutant of Advance: the function returns after its first file
Advance_early(count, then) ==
    /\ cursor' = 1
    /\ pc' = then

\* the mutant of Advance: the loop stops one file short of the last
Advance_offByOne(count, then) ==
    IF cursor + 1 < count
    THEN /\ cursor' = cursor + 1
         /\ pc' = pc
    ELSE /\ cursor' = 1
         /\ pc' = then

\* the forEach of a collection moves on, or the function returns to buildAll
Advance(count, then) ==
    IF cursor < count
    THEN /\ cursor' = cursor + 1
         /\ pc' = pc
    ELSE /\ cursor' = 1
         /\ pc' = then

\* the mutant of IsDuplicate: a repeated id silently replaces the entry
IsDuplicate_never(files, id) == FALSE

\* build.js 65: `if (files[id])`
IsDuplicate(files, id) == HasProperty(files, id)

\* the mutant of DuplicateDiagnostic: only the current file is named
DuplicateDiagnostic_oneFile(files, id, file) ==
    Diagnostic("DuplicateId", id, <<file>>, <<>>)

\* build.js 66-68: the id, the earlier file and the current one
DuplicateDiagnostic(files, id, file) ==
    Diagnostic("DuplicateId", id, <<GetProperty(files, id), file>>, <<>>)

\* the mutant of HasBadToken: {zoom} is taken for {z}
HasBadToken_prefix(url) ==
    \E n \in 1..Len(url) : url[n] \in {"{z}", "{zoom}"}

\* part_008 98: /\{z\}/.test(url)
HasBadToken(url) == \E n \in 1..Len(url) : url[n] = "{z}"

\* part_008 106: `if (featureId && !features[featureId])`
IsUnknownFeature(index, featureId) ==
    Truthy(featureId) /\ ~HasProperty(index, featureId)

\* the mutant of IsMissingFeatureId: only tms resources need a featureId
IsMissingFeatureId_tmsOnly(resource, file) ==
    ~Truthy(resource.featureId) /\ ~IsWorld(file) /\ resource.type = "tms"

\* the mutant of IsMissingFeatureId: src/build.js 139, without the exemption
IsMissingFeatureId_noExemption(resource, file) ==
    ~Truthy(resource.featureId) /\ ~IsWorld(file)

\* part_008 112-113
IsMissingFeatureId(resource, file) ==
    ~Truthy(resource.featureId) /\ ~IsWorld(file) /\ resource.type # "scanex"

\* the mutant of TranslationStrings: the whole attribution object is copied
TranslationStrings_wholeAttribution(resource) ==
    LET present ==
            {p \in {"name", "description", "attribution"} :
                CASE p = "name" -> Truthy(resource.name)
                  [] p = "description" -> Truthy(resource.description)
                  [] OTHER -> Truthy(resource.attribution.text)}
    IN  [p \in present |->
            CASE p = "name" -> resource.name
              [] p = "description" -> resource.description
              [] OTHER -> resource.attribution]

\* part_008 124-136: the strings collected for a resource with i18n set
TranslationStrings(resource) ==
    LET present ==
            {p \in {"name", "description", "attribution"} :
                CASE p = "name" -> Truthy(resource.name)
                  [] p = "description" -> Truthy(resource.description)
                  [] OTHER -> Truthy(resource.attribution.text)}
    IN  [p \in present |->
            CASE p = "name" -> resource.name
              [] p = "description" -> resource.description
              [] OTHER -> [text |-> resource.attribution.text]]

(***************************************************************************)
(* buildAll.                                                               *)
(***************************************************************************)
\* the mutant of Clean: only dist/ is emptied
Clean_distOnly ==
    /\ pc = "clean"
    /\ artifacts' = [a \in ArtifactSet |->
                        IF a = "i18n/en.yaml" THEN artifacts[a] ELSE Absent]
    /\ pc' = "features"
    /\ UNCHANGED <<status, cursor, features, ffiles, resources, rfiles, tstrings,
                   disk, stderr, build, captured, objects, written, emitted,
                   history, input, output>>

\* build.js 27: shell.rm('-f', ['dist/*.json', 'dist/*.js', 'i18n/en.yaml'])
Clean ==
    /\ pc = "clean"
    /\ artifacts' = [a \in ArtifactSet |-> Absent]
    /\ pc' = "features"
    /\ UNCHANGED <<status, cursor, features, ffiles, resources, rfiles, tstrings,
                   disk, stderr, build, captured, objects, written, emitted,
                   history, input, output>>

\* build.js 48-73: the callback of generateFeatures, for the next file
LoadFeature ==
    /\ pc = "features"
    /\ LET file == FeatureFiles[cursor] IN
       \E contents \in ReadFileSync(file, FeatureContents) :
         LET feature == Unwrap(Canonicalize(JSONParse(contents)))
             validationErrors == FeatureViolations(feature)
             write == prettifyFile(feature, contents)
             id == ToKey(feature.id)
         IN  /\ captured' = [captured EXCEPT ![file] = contents]
             /\ objects' = [objects EXCEPT ![file] = feature]
             /\ IF validateFile(file, validationErrors)
                THEN /\ Exit1(Diagnostic("Schema", "", <<file>>, validationErrors))
                     /\ disk' = [disk EXCEPT ![file] = contents]
                     /\ UNCHANGED <<cursor, features, ffiles, written>>
                ELSE /\ disk' = [disk EXCEPT ![file] =
                                    IF write THEN PrettyStringify(feature) ELSE contents]
                     /\ written' = IF write THEN written \cup {file} ELSE written
                     /\ IF IsDuplicate(ffiles, id)
                        THEN /\ Exit1(DuplicateDiagnostic(ffiles, id, file))
                             /\ UNCHANGED <<cursor, features, ffiles>>
                        ELSE /\ features' = SetProperty(features, id, feature)
                             /\ ffiles' = SetProperty(ffiles, id, file)
                             /\ Advance(NumFeatureFiles, "resources")
                             /\ UNCHANGED <<status, stderr>>
    /\ UNCHANGED <<resources, rfiles, tstrings, artifacts, build, emitted, history,
                   input, output>>

\* part_008 83-138: the callback of generateResources, for the next file
LoadResource ==
    /\ pc = "resources"
    /\ LET file == ResourceFiles[cursor] IN
       \E contents \in ReadFileSync(file, ResourceContents) :
         LET resource == JSONParse(contents)
             validationErrors == ResourceViolations(resource)
             write == prettifyFile(resource, contents)
             resourceId == ToKey(resource.id)
             url == resource.url
             featureId == resource.featureId
         IN  /\ captured' = [captured EXCEPT ![file] = contents]
             /\ objects' = [objects EXCEPT ![file] = resource]
             /\ IF validateFile(file, validationErrors)
                THEN /\ Exit1(Diagnostic("Schema", "", <<file>>, validationErrors))
                     /\ disk' = [disk EXCEPT ![file] = contents]
                     /\ UNCHANGED <<cursor, resources, rfiles, tstrings, written>>
                ELSE /\ disk' = [disk EXCEPT ![file] =
                                    IF write THEN PrettyStringify(resource) ELSE contents]
                     /\ written' = IF write THEN written \cup {file} ELSE written
                     /\ IF IsDuplicate(rfiles, resourceId)
                        THEN /\ Exit1(DuplicateDiagnostic(rfiles, resourceId, file))
                             /\ UNCHANGED <<cursor, resources, rfiles, tstrings>>
                        ELSE IF HasBadToken(url)
                        THEN /\ Exit1(Diagnostic("BadToken", "", <<file>>, url))
                             /\ UNCHANGED <<cursor, resources, rfiles, tstrings>>
                        ELSE IF IsUnknownFeature(features, featureId)
                        THEN /\ Exit1(Diagnostic("UnknownFeature", featureId, <<file>>, <<>>))
                             /\ UNCHANGED <<cursor, resources, rfiles, tstrings>>
                        ELSE IF IsMissingFeatureId(resource, file)
                        THEN /\ Exit1(Diagnostic("MissingFeatureId", "", <<file>>, <<>>))
                             /\ UNCHANGED <<cursor, resources, rfiles, tstrings>>
                        ELSE /\ resources' = SetProperty(resources, resourceId, resource)
                             /\ rfiles' = SetProperty(rfiles, resourceId, file)
                             /\ tstrings' =
                                  IF resource.i18n
                                  THEN SetProperty(tstrings, resourceId,
                                                   TranslationStrings(resource))
                                  ELSE tstrings
                             /\ Advance(NumResourceFiles, "emit")
                             /\ UNCHANGED <<status, stderr>>
    /\ UNCHANGED <<features, ffiles, artifacts, build, emitted, history, input,
                   output>>

\* build.js 34-38: the next fs.writeFileSync of buildAll
WriteArtifact ==
    /\ pc = "emit"
    /\ cursor <= Len(ArtifactNames)
    /\ artifacts' = [artifacts EXCEPT ![ArtifactNames[cursor]] = ArtifactContents(cursor)]
    /\ emitted' = emitted \cup {ArtifactNames[cursor]}
    /\ cursor' = cursor + 1
    /\ UNCHANGED <<pc, status, features, ffiles, resources, rfiles, tstrings,
                   disk, stderr, build, captured, objects, written, history,
                   input, output>>

\* build.js 40-41: buildAll returns and the process ends with status 0
Finish ==
    /\ pc = "emit"
    /\ cursor > Len(ArtifactNames)
    /\ pc' = "exited"
    /\ status' = "exit0"
    /\ UNCHANGED <<cursor, features, ffiles, resources, rfiles, tstrings,
                   disk, artifacts, stderr, build, captured, objects, written,
                   emitted, history, input, output>>

\* build.js 19: the script is run again, with no edit in between, on the
\* files a successful build left.  (A failed build is followed by an edit:
\* the run after it is a behaviour from Init.)
Rebuild ==
    /\ pc = "exited"
    /\ status = "exit0"
    /\ build < MaxBuilds
    /\ build' = build + 1
    /\ history' = Append(history, [status |-> status, artifacts |-> artifacts])
    /\ pc' = "clean"
    /\ status' = "running"
    /\ cursor' = 1
    /\ features' = <<>>
    /\ ffiles' = <<>>
    /\ resources' = <<>>
    /\ rfiles' = <<>>
    /\ tstrings' = <<>>
    /\ stderr' = <<>>
    /\ captured' = [f \in SourceFiles |-> Unread]
    /\ objects' = [f \in SourceFiles |-> <<>>]
    /\ written' = {}
    /\ emitted' = {}
    /\ UNCHANGED <<disk, artifacts, input, output>>

Next ==
    \/ Clean
    \/ LoadFeature
    \/ LoadResource
    \/ WriteArtifact
    \/ Finish
    \/ Rebuild

Spec == Init /\ [][Next]_vars

\* index.js, the main module of the package: what require('../.') returns
\* once dist/ is built
PackageExports ==
    [features |-> JSONParse(artifacts["dist/features.json"]).features,
     resources |-> JSONParse(artifacts["dist/resources.json"]).resources]

(***************************************************************************)
(* build.js 50-59 on its own: the canonicalization and the unwrapping of   *)
(* one parsed document, and the canonicalization of the result (what the   *)
(* next build does with the file the first one rewrote).                   *)
(***************************************************************************)
buildVars == <<pc, status, cursor, features, ffiles, resources, rfiles, tstrings,
               disk, artifacts, stderr, build, captured, objects, written,
               emitted, history>>

\* coordinates in millionths: ties (-15, -5), values below and above a tie
GridX == {-15, 0, 20, 40}

GridY == {-5, 0, 4, 6, 25}

Triangle(p, q) == <<<<0, 0>>, p, q, <<0, 0>>>>

OuterRings == {Triangle(p, q) : p \in GridX \X GridY, q \in GridX \X GridY}

HoleRings ==
    {RingThin, Reverse(RingThin), <<<<0, 0>>, <<10, 0>>, <<10, 10>>, <<0, 0>>>>}

HoleLists == UNION {[1..n -> HoleRings] : n \in 0..MaxHoles}

FeatureOf(id, geometry) ==
    [type |-> "Feature", id |-> id, geometry |-> geometry, features |-> <<>>,
     extra |-> FALSE]

PolygonInputs ==
    {FeatureOf("a", Polygon(<<outer>> \o holes)) :
        outer \in OuterRings, holes \in HoleLists}

MultiPolygonInputs ==
    LET polygons == {<<RingCanonical>>, <<Reverse(RingCanonical), RingUnrounded>>,
                     <<RingThin>>, <<RingUnrounded, Reverse(RingThin)>>}
    IN  {FeatureOf("a", MultiPolygon(<<p, q>>)) : p \in polygons, q \in polygons}

\* [12.123456789, 45.987654321] and its mirror images, cut after the 6th digit
PointInputs ==
    {FeatureOf("a", Point(<<x, y>>)) :
        x \in {12123456, -12123456, 12123455, -12123455, 12123450},
        y \in {45987654, -45987654}}

CollectionInputs ==
    LET members == {Feature(id, ring, FALSE) :
                        id \in {Undefined, "", "b"}, ring \in {RingCanonical, RingThin}}
        lists == UNION {[1..n -> members] : n \in 0..2}
    IN  {FeatureCollection(id, list) : id \in {Undefined, "", "a"}, list \in lists}

CanonInputs ==
    PolygonInputs \cup MultiPolygonInputs \cup PointInputs \cup CollectionInputs

CanonInit ==
    /\ Started
    /\ artifacts = [a \in ArtifactSet |-> Absent]
    /\ input \in CanonInputs
    /\ output = <<>>

Call(fn, value) == [fn |-> fn, value |-> value]

\* build.js 50, on the parsed document
CallCanonicalize ==
    /\ Len(output) = 0
    /\ output' = <<Call("canonicalize", Canonicalize(input))>>
    /\ UNCHANGED <<buildVars, input>>

\* build.js 50, on a document that is already canonical
CallCanonicalizeAgain ==
    /\ Len(output) = 1
    /\ output' = Append(output, Call("canonicalize", Canonicalize(output[1].value)))
    /\ UNCHANGED <<buildVars, input>>

\* build.js 51-59, on the canonicalized document
CallUnwrap ==
    /\ Len(output) = 1
    /\ output' = Append(output, Call("unwrap", Unwrap(output[1].value)))
    /\ UNCHANGED <<buildVars, input>>

CanonNext ==
    \/ CallCanonicalize
    \/ CallCanonicalizeAgain
    \/ CallUnwrap

CanonSpec == CanonInit /\ [][CanonNext]_vars

(***************************************************************************)
(* schema.json, the schema `make check` validates a source against.  A     *)
(* source is a record [type, extra, properties]; properties is a record    *)
(* [id, type, url, name, extra, attribution] and attribution a record      *)
(* [text, extra].  `extra` says that the object carries a key its schema   *)
(* does not list.  Every value of the inputs has the JSON type and the     *)
(* pattern its schema asks for: types and patterns are not modelled.       *)
(***************************************************************************)
\* schema.json 35-41
SchemaTypes == {"tms", "wms", "bing", "scanex", "wms_endpoint"}

\* schema.json 118-135: attribution, additionalProperties false
AttributionViolations(attribution) ==
    IF attribution.extra
    THEN <<Violation("instance.properties.attribution",
                     "additionalProperty \"extra\" exists in instance when not allowed")>>
    ELSE <<>>

\* schema.json 16-139: properties, additionalProperties false, four required
PropertiesViolations(properties) ==
    (IF properties.extra
     THEN <<Violation("instance.properties",
                      "additionalProperty \"extra\" exists in instance when not allowed")>>
     ELSE <<>>)
    \o (IF properties.id = Undefined
        THEN <<Violation("instance.properties", "requires property \"id\"")>>
        ELSE <<>>)
    \o (IF properties.type = Undefined
        THEN <<Violation("instance.properties", "requires property \"type\"")>>
        ELSE IF properties.type \notin SchemaTypes
        THEN <<Violation("instance.properties.type", "is not one of enum values")>>
        ELSE <<>>)
    \o (IF properties.url = Undefined
        THEN <<Violation("instance.properties", "requires property \"url\"")>>
        ELSE <<>>)
    \o (IF properties.name = Undefined
        THEN <<Violation("instance.properties", "requires property \"name\"")>>
        ELSE <<>>)
    \o AttributionViolations(properties.attribution)

\* schema.json 1-142: the top level lists type, bbox, geometry and
\* properties; it has no `required` and no `additionalProperties`
SchemaViolations(source) ==
    (IF source.type \notin {Undefined, "Feature"}
     THEN <<Violation("instance.type", "is not one of enum values: Feature")>>
     ELSE <<>>)
    \o PropertiesViolations(source.properties)

SchemaInputs ==
    [type : {"Feature", "FeatureCollection"},
     extra : BOOLEAN,
     properties :
        [id : {Undefined, "a"},
         type : {"tms", "tiles"},
         url : {UrlZoom},
         name : {Undefined, "Name"},
         extra : BOOLEAN,
         attribution : [text : {"Text"}, extra : BOOLEAN]]]

SchemaInit ==
    /\ Started
    /\ artifacts = [a \in ArtifactSet |-> Absent]
    /\ input \in SchemaInputs
    /\ output = <<>>

\* Makefile 8-9: `make check` validates a source against schema.json
CallValidate ==
    /\ Len(output) = 0
    /\ output' = <<Call("validate", SchemaViolations(input))>>
    /\ UNCHANGED <<buildVars, input>>

SchemaSpec == SchemaInit /\ [][CallValidate]_vars

(***************************************************************************)
(* part_008 105-121 on its own: the feature-reference check of one         *)
(* resource, for a file anywhere in a source tree.  The input is a record  *)
(* [dirname, dir, resource]: where the repository is checked out, the      *)
(* directory of the file below resources/, and the parsed document.        *)
(***************************************************************************)
\* __dirname + '/resources/' + dir + '/1.json'
FileIn(dirname, dir) ==
    dirname \o <<"/", "resources", "/">> \o dir \o <<"/", "1", ".json">>

\* the feature index the check runs against
LoadedFeatures == <<[k |-> "a", v |-> Feature("a", RingCanonical, FALSE)]>>

ScopeInputs ==
    [dirname : {<<>>, <<"/", "srv">>, <<"/", "resources", "/", "world", "-mirror">>},
     dir : {<<"europe">>, <<"world">>, <<"world", "/", "asia">>, <<"world", "wide">>,
            <<"zone">>},
     resource : {Resource("b", type, UrlZoom, featureId) :
                    type \in {"tms", "wms", "bing", "scanex", "wms_endpoint"},
                    featureId \in {Undefined, "a", "c"}}]

ScopeInit ==
    /\ Started
    /\ artifacts = [a \in ArtifactSet |-> Absent]
    /\ input \in ScopeInputs
    /\ output = <<>>

\* part_008 105-121: the error the check exits with, or "indexed"
CallFeatureReferenceCheck ==
    /\ Len(output) = 0
    /\ LET file == FileIn(input.dirname, input.dir)
           outcome ==
               IF IsUnknownFeature(LoadedFeatures, input.resource.featureId)
               THEN "UnknownFeature"
               ELSE IF IsMissingFeatureId(input.resource, file)
               THEN "MissingFeatureId"
               ELSE "indexed"
       IN  output' = <<Call("check", outcome)>>
    /\ UNCHANGED <<buildVars, input>>

ScopeSpec == ScopeInit /\ [][CallFeatureReferenceCheck]_vars

(***************************************************************************)
(* What a state says about the files the running build has read.           *)
(***************************************************************************)
FeatureRead(n) == captured[FeatureFiles[n]] # Unread

\* the document generateFeatures validates, rewrites and indexes for file n
FeatureDoc(n) == objects[FeatureFiles[n]]

ResourceRead(n) == captured[ResourceFiles[n]] # Unread

ResourceDoc(n) == objects[ResourceFiles[n]]

\* an earlier-processed file of the collection declared the same id
FeatureIdTaken(n) ==
    \E m \in 1..(n - 1) : FeatureDoc(m).id = FeatureDoc(n).id

ResourceIdTaken(n) ==
    \E m \in 1..(n - 1) : ResourceDoc(m).id = ResourceDoc(n).id

\* the build has exited with exactly this diagnostic
AbortedWith(diagnostic) ==
    /\ pc = "exited"
    /\ status = "exit1"
    /\ stderr = <<diagnostic>>

\* the build has exited on an error that names this file as the current one
AbortedOn(file) ==
    /\ status = "exit1"
    /\ Len(stderr) = 1
    /\ stderr[1].files[Len(stderr[1].files)] = file

InIndex(index, files, id, doc, file) ==
    /\ HasOwn(index, id)
    /\ OwnValue(index, id) = doc
    /\ HasOwn(files, id)
    /\ OwnValue(files, id) = file

FileIndexed(files, file) == \E n \in 1..Len(files) : files[n].v = file

\* the earlier file that declared the id of feature file n / resource file n
EarlierFeatureFile(n) ==
    FeatureFiles[CHOOSE m \in 1..(n - 1) : FeatureDoc(m).id = FeatureDoc(n).id]

EarlierResourceFile(n) ==
    ResourceFiles[CHOOSE m \in 1..(n - 1) : ResourceDoc(m).id = ResourceDoc(n).id]

(***************************************************************************)
(* C1.  Duplicate ids.                                                     *)
(***************************************************************************)
\* C1 as stated: whenever a file declares an id that an earlier-processed
\* file of the same collection declared, the build aborts with a
\* duplicate-id error naming the id and both paths, and the second document
\* is not added to the index.
C1_AsStated ==
    /\ \A n \in 1..NumFeatureFiles :
          (FeatureRead(n) /\ FeatureIdTaken(n)) =>
              /\ AbortedWith(Diagnostic("DuplicateId", ToKey(FeatureDoc(n).id),
                                        <<EarlierFeatureFile(n), FeatureFiles[n]>>, <<>>))
              /\ ~FileIndexed(ffiles, FeatureFiles[n])
    /\ \A n \in 1..NumResourceFiles :
          (ResourceRead(n) /\ ResourceIdTaken(n)) =>
              /\ AbortedWith(Diagnostic("DuplicateId", ToKey(ResourceDoc(n).id),
                                        <<EarlierResourceFile(n), ResourceFiles[n]>>, <<>>))
              /\ ~FileIndexed(rfiles, ResourceFiles[n])

\* C1 amended: whenever a file whose document passes schema validation
\* declares an id that an earlier-processed file of the same collection
\* declared, the build aborts with a duplicate-id error naming the id, the
\* earlier file and the current file, and the second document is not added
\* to the index.
C1_Duplicate ==
    /\ \A n \in 1..NumFeatureFiles :
          (FeatureRead(n) /\ FeatureIdTaken(n)
             /\ FeatureViolations(FeatureDoc(n)) = <<>>) =>
              /\ AbortedWith(Diagnostic("DuplicateId", ToKey(FeatureDoc(n).id),
                                        <<EarlierFeatureFile(n), FeatureFiles[n]>>, <<>>))
              /\ ~FileIndexed(ffiles, FeatureFiles[n])
              /\ OwnValue(ffiles, ToKey(FeatureDoc(n).id)) = EarlierFeatureFile(n)
    /\ \A n \in 1..NumResourceFiles :
          (ResourceRead(n) /\ ResourceIdTaken(n)
             /\ ResourceViolations(ResourceDoc(n)) = <<>>) =>
              /\ AbortedWith(Diagnostic("DuplicateId", ToKey(ResourceDoc(n).id),
                                        <<EarlierResourceFile(n), ResourceFiles[n]>>, <<>>))
              /\ ~FileIndexed(rfiles, ResourceFiles[n])
              /\ OwnValue(rfiles, ToKey(ResourceDoc(n).id)) = EarlierResourceFile(n)

\* a resource file that passes validation repeats the id of the first
\* resource file and the build has reported the duplicate
C1_Witness ==
    /\ ResourceRead(2)
    /\ ResourceIdTaken(2)
    /\ ResourceViolations(ResourceDoc(2)) = <<>>
    /\ status = "exit1"
    /\ stderr[1].kind = "DuplicateId"
    /\ stderr[1].files = <<ResourceFiles[1], ResourceFiles[2]>>

(***************************************************************************)
(* C2.  Unknown feature ids.                                               *)
(***************************************************************************)
\* the checks generateResources makes before it looks the featureId up
ResourcePassesEarlierChecks(n) ==
    /\ ResourceViolations(ResourceDoc(n)) = <<>>
    /\ ~ResourceIdTaken(n)
    /\ ToKey(ResourceDoc(n).id) \notin ObjectPrototypeKeys
    /\ \A m \in 1..Len(ResourceDoc(n).url) : ResourceDoc(n).url[m] # "{z}"

\* C2: every resource whose featureId is set to a value that is not the id
\* of a loaded feature aborts the build with an unknown-feature error naming
\* the featureId and the file, whatever the featureId string, the type and
\* the file's scope; so every featureId in the resource index is a key of
\* the feature index.  (Stated for the resources that reach the lookup.)
C2_UnknownFeature ==
    /\ \A n \in 1..NumResourceFiles :
          (ResourceRead(n) /\ ResourcePassesEarlierChecks(n)
             /\ Truthy(ResourceDoc(n).featureId)
             /\ ~HasOwn(features, ResourceDoc(n).featureId)) =>
              AbortedWith(Diagnostic("UnknownFeature", ResourceDoc(n).featureId,
                                     <<ResourceFiles[n]>>, <<>>))
    /\ \A n \in 1..Len(resources) :
          Truthy(resources[n].v.featureId) =>
              HasOwn(features, resources[n].v.featureId)

(***************************************************************************)
(* C3.  Missing feature ids.                                               *)
(***************************************************************************)
\* the types that may omit featureId
ExemptTypes == {"scanex"}

\* file n holds a resource with no featureId, outside resources/world, whose
\* type is not exempt
ResourceLacksFeatureId(n) ==
    /\ ~Truthy(ResourceDoc(n).featureId)
    /\ ~IsWorld(ResourceFiles[n])
    /\ ResourceDoc(n).type \notin ExemptTypes

\* C3 as stated: a resource with no featureId, not path-flagged as
\* world-scope, of a type that is not exempt, aborts the build with a
\* missing-feature-id error naming the file and is not added to the index.
C3_AsStated ==
    \A n \in 1..NumResourceFiles :
        (ResourceRead(n) /\ ResourceLacksFeatureId(n)) =>
            /\ AbortedWith(Diagnostic("MissingFeatureId", "", <<ResourceFiles[n]>>, <<>>))
            /\ ~FileIndexed(rfiles, ResourceFiles[n])

\* C3 amended: a resource that passes schema validation, the duplicate-id
\* check and the {z} url guard, has no featureId, is not path-flagged as
\* world-scope and whose type is not exempt aborts the build with a
\* missing-feature-id error naming the file and is not added to the index.
C3_MissingFeatureId ==
    \A n \in 1..NumResourceFiles :
        (ResourceRead(n) /\ ResourcePassesEarlierChecks(n)
           /\ ResourceLacksFeatureId(n)) =>
            /\ AbortedWith(Diagnostic("MissingFeatureId", "", <<ResourceFiles[n]>>, <<>>))
            /\ ~FileIndexed(rfiles, ResourceFiles[n])
            /\ ~HasOwn(resources, ToKey(ResourceDoc(n).id))

\* the first resource file, outside resources/world, holds a tms resource
\* without featureId and the build has reported it
C3_Witness ==
    /\ ResourceRead(1)
    /\ ResourcePassesEarlierChecks(1)
    /\ ResourceLacksFeatureId(1)
    /\ ResourceDoc(1).type = "tms"
    /\ status = "exit1"
    /\ stderr[1].kind = "MissingFeatureId"

(***************************************************************************)
(* C4.  The exemption.                                                     *)
(***************************************************************************)
\* C4: a resource with no featureId, not world-scoped, of type scanex, that
\* passes every other check (schema, duplicate id, url token) is loaded: the
\* build does not abort on it and it is in the resource index under its id.
C4_Exemption ==
    \A n \in 1..NumResourceFiles :
        (ResourceRead(n) /\ ResourcePassesEarlierChecks(n)
           /\ ~Truthy(ResourceDoc(n).featureId)
           /\ ~IsWorld(ResourceFiles[n])
           /\ ResourceDoc(n).type = "scanex") =>
            /\ ~AbortedOn(ResourceFiles[n])
            /\ InIndex(resources, rfiles, ToKey(ResourceDoc(n).id),
                       ResourceDoc(n), ResourceFiles[n])

\* a scanex resource without featureId, outside resources/world, is indexed
C4_Witness ==
    /\ ResourceRead(1)
    /\ ~Truthy(ResourceDoc(1).featureId)
    /\ ~IsWorld(ResourceFiles[1])
    /\ ResourceDoc(1).type = "scanex"
    /\ HasOwn(resources, ToKey(ResourceDoc(1).id))
    /\ status = "exit0"

(***************************************************************************)
(* C5.  The {z} guard.                                                     *)
(***************************************************************************)
UrlHas(url, token) == \E m \in 1..Len(url) : url[m] = token

\* C5 as stated: every resource whose url contains {z} aborts the build with
\* a bad-token error naming the url and the file, whatever its type; a url
\* with {zoom} and no {z} passes the guard.
C5_AsStated ==
    \A n \in 1..NumResourceFiles :
        ResourceRead(n) =>
            /\ UrlHas(ResourceDoc(n).url, "{z}") =>
                  AbortedWith(Diagnostic("BadToken", "", <<ResourceFiles[n]>>,
                                         ResourceDoc(n).url))
            /\ (UrlHas(ResourceDoc(n).url, "{zoom}") /\ ~UrlHas(ResourceDoc(n).url, "{z}")) =>
                  ~(AbortedOn(ResourceFiles[n]) /\ stderr[1].kind = "BadToken")

\* C5 amended: every resource that passes schema validation and the
\* duplicate-id check and whose url contains {z} aborts the build with a
\* bad-token error naming the url and the file, whatever its type, and is
\* not indexed; a url with {zoom} and no {z} passes the guard.
C5_BadToken ==
    \A n \in 1..NumResourceFiles :
        ResourceRead(n) =>
            /\ (/\ UrlHas(ResourceDoc(n).url, "{z}")
                /\ ResourceViolations(ResourceDoc(n)) = <<>>
                /\ ~ResourceIdTaken(n)
                /\ ToKey(ResourceDoc(n).id) \notin ObjectPrototypeKeys) =>
                  /\ AbortedWith(Diagnostic("BadToken", "", <<ResourceFiles[n]>>,
                                            ResourceDoc(n).url))
                  /\ ~FileIndexed(rfiles, ResourceFiles[n])
            /\ (UrlHas(ResourceDoc(n).url, "{zoom}") /\ ~UrlHas(ResourceDoc(n).url, "{z}")) =>
                  ~(AbortedOn(ResourceFiles[n]) /\ stderr[1].kind = "BadToken")

\* a scanex resource with {z} in its url has been reported, after a resource
\* with {zoom} was indexed
C5_Witness ==
    /\ ResourceRead(2)
    /\ UrlHas(ResourceDoc(1).url, "{zoom}")
    /\ FileIndexed(rfiles, ResourceFiles[1])
    /\ UrlHas(ResourceDoc(2).url, "{z}")
    /\ ResourceDoc(2).type = "scanex"
    /\ status = "exit1"
    /\ stderr[1].kind = "BadToken"

(***************************************************************************)
(* C6.  Schema validation.                                                 *)
(***************************************************************************)
\* C6: every feature document (canonicalized and unwrapped) and every
\* resource document is validated before it is indexed; a document with a
\* non-empty violation list aborts the build with a schema error that
\* reports the file and each violation, and never enters an index.
C6_Schema ==
    /\ \A n \in 1..NumFeatureFiles :
          (FeatureRead(n) /\ FeatureViolations(FeatureDoc(n)) # <<>>) =>
              /\ AbortedWith(Diagnostic("Schema", "", <<FeatureFiles[n]>>,
                                        FeatureViolations(FeatureDoc(n))))
              /\ ~FileIndexed(ffiles, FeatureFiles[n])
    /\ \A n \in 1..NumResourceFiles :
          (ResourceRead(n) /\ ResourceViolations(ResourceDoc(n)) # <<>>) =>
              /\ AbortedWith(Diagnostic("Schema", "", <<ResourceFiles[n]>>,
                                        ResourceViolations(ResourceDoc(n))))
              /\ ~FileIndexed(rfiles, ResourceFiles[n])
    /\ \A n \in 1..Len(features) : FeatureViolations(features[n].v) = <<>>
    /\ \A n \in 1..Len(resources) : ResourceViolations(resources[n].v) = <<>>

\* a single-feature collection was unwrapped, validated and indexed, and a
\* resource document with a violation has then aborted the build
C6_Witness ==
    /\ FeatureRead(1)
    /\ JSONParse(captured[FeatureFiles[1]]).type = "FeatureCollection"
    /\ FileIndexed(ffiles, FeatureFiles[1])
    /\ ResourceRead(1)
    /\ ResourceViolations(ResourceDoc(1)) # <<>>
    /\ status = "exit1"
    /\ stderr[1].kind = "Schema"

(***************************************************************************)
(* C7.  A failed build writes no artifact.                                 *)
(***************************************************************************)
FatalKinds ==
    {"DuplicateId", "Schema", "BadToken", "UnknownFeature", "MissingFeatureId"}

\* C7: once a document has triggered one of the five errors the build has
\* terminated with a non-zero status and none of the five artifacts was
\* written in that build.
C7_FailedBuild ==
    /\ stderr # <<>> =>
          /\ stderr[1].kind \in FatalKinds
          /\ pc = "exited"
          /\ status = "exit1"
          /\ emitted = {}
    /\ status = "exit1" => (stderr # <<>> /\ emitted = {})

\* every feature is loaded, a resource has triggered an error and the build
\* has exited with status 1
C7_Witness ==
    /\ Len(features) = NumFeatureFiles
    /\ ResourceRead(2)
    /\ stderr # <<>>
    /\ stderr[1].kind = "UnknownFeature"
    /\ status = "exit1"
    /\ emitted = {}

(***************************************************************************)
(* C8.  A successful build writes the five artifacts from the final        *)
(* indices.                                                                *)
(***************************************************************************)
\* every source file has been read and its document is in its index
LoadComplete ==
    /\ \A n \in 1..NumFeatureFiles : FeatureRead(n) /\ FileIndexed(ffiles, FeatureFiles[n])
    /\ \A n \in 1..NumResourceFiles : ResourceRead(n) /\ FileIndexed(rfiles, ResourceFiles[n])
    /\ Len(features) = NumFeatureFiles
    /\ Len(resources) = NumResourceFiles

\* C8: when every document has passed every check the build ends with
\* status 0 and the five artifacts written, and every artifact written in a
\* build is the serialization of the complete feature index, resource index
\* and i18n bundle.
C8_SuccessfulBuild ==
    /\ \A n \in 1..Len(ArtifactNames) :
          ArtifactNames[n] \in emitted =>
              /\ LoadComplete
              /\ artifacts[ArtifactNames[n]] = ArtifactContents(n)
    /\ (LoadComplete /\ status = "running") =>
          /\ pc = "emit"
          /\ ENABLED (WriteArtifact \/ Finish)
    /\ (pc = "exited" /\ stderr = <<>>) => status = "exit0"
    /\ status = "exit0" =>
          /\ LoadComplete
          /\ emitted = ArtifactSet
          /\ \A a \in ArtifactSet : artifacts[a] \notin {Absent, Stale}

\* a build has ended with status 0 and the five artifacts on disk
C8_Witness ==
    /\ status = "exit0"
    /\ emitted = ArtifactSet
    /\ Len(tstrings) > 0
    /\ artifacts["i18n/en.yaml"] = YAMLSafeDump(tstrings)

(***************************************************************************)
(* C9.  prettifyFile writes a file iff its canonical form differs.         *)
(***************************************************************************)
\* the file was read, validated and passed to prettifyFile with `object`
RewrittenIffDiffers(file, object) ==
    /\ (file \in written) <=> (PrettyStringify(object) # captured[file])
    /\ disk[file] = PrettyStringify(object)

\* C9: for every loaded document the source file is overwritten with the
\* canonical pretty-printed serialization if and only if that serialization
\* differs from the contents captured when the file was read.
C9_RewriteIffDiffers ==
    /\ \A n \in 1..NumFeatureFiles :
          FeatureRead(n) =>
              IF FeatureViolations(FeatureDoc(n)) = <<>>
              THEN RewrittenIffDiffers(FeatureFiles[n], FeatureDoc(n))
              ELSE FeatureFiles[n] \notin written
                      /\ disk[FeatureFiles[n]] = captured[FeatureFiles[n]]
    /\ \A n \in 1..NumResourceFiles :
          ResourceRead(n) =>
              IF ResourceViolations(ResourceDoc(n)) = <<>>
              THEN RewrittenIffDiffers(ResourceFiles[n], ResourceDoc(n))
              ELSE ResourceFiles[n] \notin written
                      /\ disk[ResourceFiles[n]] = captured[ResourceFiles[n]]
    /\ \A f \in SourceFiles : captured[f] = Unread => f \notin written

\* in one build a file that differed was overwritten and a file that was
\* already canonical was left alone
C9_Witness ==
    /\ FeatureRead(2)
    /\ FeatureFiles[1] \in written
    /\ disk[FeatureFiles[1]] # captured[FeatureFiles[1]]
    /\ FeatureFiles[2] \notin written
    /\ FileIndexed(ffiles, FeatureFiles[2])

(***************************************************************************)
(* C10.  Rewrite stability.                                                *)
(***************************************************************************)
\* C10: a build that runs right after a successful build rewrites no source
\* file.
C10_RewriteStability ==
    (build > 1 /\ history[build - 1].status = "exit0") => written = {}

(***************************************************************************)
(* C11.  What a rewrite may change.                                        *)
(***************************************************************************)
\* the ring `new` is the ring `old` with every coordinate rounded, in the
\* same or in the opposite direction
SameRing(old, new) ==
    LET rounded == [m \in 1..Len(old) |-> <<ToFixed5(old[m][1]), ToFixed5(old[m][2])>>]
    IN  new = rounded \/ new = Reverse(rounded)

SameRings(old, new) ==
    /\ Len(new) = Len(old)
    /\ \A r \in 1..Len(old) : SameRing(old[r], new[r])

SameGeometry(old, new) ==
    /\ new.type = old.type
    /\ Len(new.coordinates) = Len(old.coordinates)
    /\ CASE old.type = "Polygon" -> SameRings(old.coordinates, new.coordinates)
         [] old.type = "MultiPolygon" ->
              \A p \in 1..Len(old.coordinates) :
                  SameRings(old.coordinates[p], new.coordinates[p])
         [] OTHER -> TRUE

\* the feature document `new` differs from `old` in coordinate precision and
\* ring direction only
RECURSIVE SameFeatureSemantics(_, _)
SameFeatureSemantics(old, new) ==
    /\ new.type = old.type
    /\ new.id = old.id
    /\ new.extra = old.extra
    /\ SameGeometry(old.geometry, new.geometry)
    /\ Len(new.features) = Len(old.features)
    /\ \A m \in 1..Len(old.features) :
          Len(new.features) >= m /\ SameFeatureSemantics(old.features[m], new.features[m])

\* C11: for every source file a build overwrites, the document parsed from
\* the new contents differs from the document parsed from the old contents
\* only in formatting, coordinate precision and ring winding: its type, id,
\* properties and structure are unchanged, single-feature FeatureCollections
\* included.
C11_SemanticsPreserved ==
    /\ \A n \in 1..NumFeatureFiles :
          FeatureFiles[n] \in written =>
              SameFeatureSemantics(JSONParse(captured[FeatureFiles[n]]),
                                   JSONParse(disk[FeatureFiles[n]]))
    /\ \A n \in 1..NumResourceFiles :
          ResourceFiles[n] \in written =>
              JSONParse(disk[ResourceFiles[n]]) = JSONParse(captured[ResourceFiles[n]])

(***************************************************************************)
(* C12.  Canonicalization is idempotent.                                   *)
(***************************************************************************)
\* C12: for every geometry-bearing document x, canon(canon(x)) equals
\* canon(x), also when a ring of x is so small or thin that rounding changes
\* the sign of its area.
C12_Idempotent ==
    (Len(output) = 2 /\ output[2].fn = "canonicalize") =>
        output[2].value = output[1].value

(***************************************************************************)
(* C13.  Rounding to 5 decimal digits.                                     *)
(***************************************************************************)
\* r is x rounded to 5 decimal digits, half away from zero
IsRounded5(x, r) ==
    /\ r % Step = 0
    /\ 2 * Abs(r - x) <= Step
    /\ 2 * Abs(r - x) = Step => Abs(r) > Abs(x)
    /\ x % Step = 0 => r = x

RoundedPosition(old, new) ==
    /\ Len(new) = Len(old)
    /\ \A c \in 1..Len(old) : IsRounded5(old[c], new[c])

\* every position of the ring rounded, the ring in either direction
RoundedRing(old, new) ==
    /\ Len(new) = Len(old)
    /\ \/ \A m \in 1..Len(old) : RoundedPosition(old[m], new[m])
       \/ \A m \in 1..Len(old) : RoundedPosition(old[m], new[Len(old) + 1 - m])

RoundedRings(old, new) ==
    /\ Len(new) = Len(old)
    /\ \A r \in 1..Len(old) : RoundedRing(old[r], new[r])

RoundedGeometry(old, new) ==
    /\ new.type = old.type
    /\ CASE old.type = "Point" -> RoundedPosition(old.coordinates, new.coordinates)
         [] old.type = "Polygon" -> RoundedRings(old.coordinates, new.coordinates)
         [] old.type = "MultiPolygon" ->
              /\ Len(new.coordinates) = Len(old.coordinates)
              /\ \A p \in 1..Len(old.coordinates) :
                    RoundedRings(old.coordinates[p], new.coordinates[p])
         [] OTHER -> new = old

RECURSIVE RoundedDocument(_, _)
RoundedDocument(old, new) ==
    /\ RoundedGeometry(old.geometry, new.geometry)
    /\ Len(new.features) = Len(old.features)
    /\ \A m \in 1..Len(old.features) :
          RoundedDocument(old.features[m], new.features[m])

\* C13: canonicalization replaces every coordinate by that value rounded to
\* exactly 5 decimal digits, half away from zero for positive and negative
\* values alike ([12.123456789, 45.987654321] becomes [12.12346, 45.98765]);
\* a coordinate with at most 5 decimal digits is unchanged.
C13_Rounding ==
    Len(output) >= 1 =>
        /\ RoundedDocument(input, output[1].value)
        /\ input.geometry = Point(<<12123456, 45987654>>) =>
              output[1].value.geometry = Point(<<12123460, 45987650>>)

\* a negative coordinate half way between two 5-digit values has been
\* rounded away from zero, next to a coordinate that was rounded down
C13_Witness ==
    /\ Len(output) >= 1
    /\ input.geometry = Point(<<-12123455, 45987654>>)
    /\ output[1].value.geometry = Point(<<-12123460, 45987650>>)

(***************************************************************************)
(* C14.  Ring orientation of canonicalized documents.                      *)
(***************************************************************************)
\* the outer ring winds the way rewind(_, true) leaves it (its area sum is
\* not negative) and every hole winds the other way
OrientedRings(rings) ==
    \A r \in 1..Len(rings) :
        IF r = 1 THEN RingArea(rings[r]) >= 0 ELSE RingArea(rings[r]) <= 0

OrientedGeometry(geometry) ==
    CASE geometry.type = "Polygon" -> OrientedRings(geometry.coordinates)
      [] geometry.type = "MultiPolygon" ->
           \A p \in 1..Len(geometry.coordinates) :
               OrientedRings(geometry.coordinates[p])
      [] OTHER -> TRUE

RECURSIVE OrientedDocument(_)
OrientedDocument(doc) ==
    /\ OrientedGeometry(doc.geometry)
    /\ \A m \in 1..Len(doc.features) : OrientedDocument(doc.features[m])

\* C14: in every canonicalized document (the value that is validated,
\* rewritten to disk and put in the feature index, after rewinding and
\* precision reduction) every polygon's outer ring has the one fixed
\* orientation and every hole the opposite one.
C14_Orientation ==
    /\ \A n \in 1..NumFeatureFiles :
          FeatureRead(n) => OrientedDocument(FeatureDoc(n))
    /\ \A n \in 1..NumFeatureFiles :
          FeatureFiles[n] \in written => OrientedDocument(JSONParse(disk[FeatureFiles[n]]))
    /\ \A n \in 1..Len(features) : OrientedDocument(features[n].v)

(***************************************************************************)
(* C15.  Single-feature unwrapping.                                        *)
(***************************************************************************)
\* the document has an id (a non-empty one)
HasId(doc) == doc.id # Undefined /\ doc.id # ""

\* C15: a document of type FeatureCollection whose features array has
\* exactly one element is replaced by that one feature; the collection's id
\* is copied onto the feature only when the collection has an id and the
\* feature has none, and a feature that has its own id keeps it.  A
\* FeatureCollection with zero or with two or more features, and a document
\* of another type, is not unwrapped.
C15_Unwrapping ==
    (Len(output) = 2 /\ output[2].fn = "unwrap") =>
        LET doc == output[1].value
            unwrapped == output[2].value
        IN  IF doc.type = "FeatureCollection" /\ Len(doc.features) = 1
            THEN LET only == doc.features[1] IN
                 /\ unwrapped.type = only.type
                 /\ unwrapped.geometry = only.geometry
                 /\ unwrapped.features = only.features
                 /\ unwrapped.extra = only.extra
                 /\ unwrapped.id # only.id => (HasId(doc) /\ ~HasId(only))
                 /\ (HasId(doc) /\ ~HasId(only)) => unwrapped.id = doc.id
                 /\ HasId(only) => unwrapped.id = only.id
            ELSE unwrapped = doc

\* a collection with an id and one feature with an id of its own was
\* replaced by that feature, which kept its id
C15_Witness ==
    /\ Len(output) = 2
    /\ output[2].fn = "unwrap"
    /\ input.type = "FeatureCollection"
    /\ Len(input.features) = 1
    /\ input.id = "a"
    /\ input.features[1].id = "b"
    /\ output[2].value.type = "Feature"
    /\ output[2].value.id = "b"

(***************************************************************************)
(* C16.  The i18n bundle.                                                  *)
(***************************************************************************)
\* generateResources has returned
ResourcesLoaded == pc = "emit" \/ status = "exit0"

\* the translatable fields the resource has
TranslatableFields(resource) ==
    (IF Truthy(resource.name) THEN {"name"} ELSE {})
        \cup (IF Truthy(resource.description) THEN {"description"} ELSE {})
        \cup (IF Truthy(resource.attribution.text) THEN {"attribution"} ELSE {})

\* the bundle entry holds exactly the translatable fields of the resource
EntryOf(entry, resource) ==
    /\ DOMAIN entry = TranslatableFields(resource)
    /\ "name" \in DOMAIN entry => entry.name = resource.name
    /\ "description" \in DOMAIN entry => entry.description = resource.description
    /\ "attribution" \in DOMAIN entry =>
          /\ DOMAIN entry.attribution = {"text"}
          /\ entry.attribution.text = resource.attribution.text

\* C16: after a successful load the i18n bundle has an entry for resource id
\* r if and only if resource r has i18n set; the entry contains exactly those
\* of name, description and attribution.text that the resource has, the
\* attribution nested as {text} only, and no other field; a resource without
\* the flag contributes no entry even if it has a name.
C16_Bundle ==
    ResourcesLoaded =>
        /\ Keys(tstrings) \subseteq Keys(resources)
        /\ \A n \in 1..Len(resources) :
              LET r == resources[n].k
                  resource == resources[n].v
              IN  /\ HasOwn(tstrings, r) <=> resource.i18n
                  /\ resource.i18n => EntryOf(OwnValue(tstrings, r), resource)
        /\ \A n, m \in 1..Len(tstrings) : tstrings[n].k = tstrings[m].k => n = m

\* a load has ended with a flagged resource in the bundle, its attribution
\* reduced to the text, and a named resource without the flag outside it
C16_Witness ==
    /\ ResourcesLoaded
    /\ Len(tstrings) = 1
    /\ Truthy(resources[1].v.name)
    /\ ~resources[1].v.i18n
    /\ resources[2].v.i18n
    /\ Truthy(resources[2].v.attribution.url)
    /\ tstrings[1].k = resources[2].k
    /\ DOMAIN tstrings[1].v = {"name", "description", "attribution"}
    /\ tstrings[1].v.attribution = [text |-> resources[2].v.attribution.text]

(***************************************************************************)
(* C17.  Determinism.                                                      *)
(***************************************************************************)
\* the features and resources aggregates, pretty and compact
Aggregates ==
    {"dist/features.json", "dist/features.min.json", "dist/resources.json",
     "dist/resources.min.json"}

\* C17: two builds over the same document set, with no contributor edit
\* between them, produce byte-identical features and resources aggregates,
\* pretty and compact.
C17_Determinism ==
    (build > 1 /\ status = "exit0" /\ history[build - 1].status = "exit0") =>
        \A a \in Aggregates : artifacts[a] = history[build - 1].artifacts[a]

(***************************************************************************)
(* C18.  The aggregates.                                                   *)
(***************************************************************************)
\* `index` maps exactly the ids of the documents of the files to them
MapsEveryDocument(index, count, Doc(_)) ==
    /\ Keys(index) = {ToKey(Doc(n).id) : n \in 1..count}
    /\ Len(index) = count
    /\ \A n \in 1..count : OwnValue(index, ToKey(Doc(n).id)) = Doc(n)

Rank(id) == CHOOSE n \in 1..Len(IdOrder) : IdOrder[n] = id

Entries(obj) == {obj[n] : n \in 1..Len(obj)}

\* C19: the localization extract is the i18n bundle nested under the locale
\* key `en` and the namespace key `imagery`, its keys in sorted order, so its
\* bytes depend on the set of bundle entries only and not on the order in
\* which the resources were loaded.
C19_Extract ==
    "i18n/en.yaml" \in emitted =>
        LET extract == artifacts["i18n/en.yaml"]
            imagery == extract.doc.en.imagery
        IN  /\ extract.fmt = "yaml"
            /\ DOMAIN extract.doc = {"en"}
            /\ DOMAIN extract.doc.en = {"imagery"}
            /\ Len(imagery) = Len(tstrings)
            /\ Entries(imagery) = Entries(tstrings)
            /\ \A n, m \in 1..Len(imagery) :
                  n < m => Rank(imagery[n].k) < Rank(imagery[m].k)
            /\ extract = YAMLSafeDump(Reverse(tstrings))

\* the extract was written from a bundle whose entries were collected in
\* the opposite of their sorted order
C19_Witness ==
    /\ "i18n/en.yaml" \in emitted
    /\ Len(tstrings) = 2
    /\ Rank(tstrings[1].k) > Rank(tstrings[2].k)
    /\ artifacts["i18n/en.yaml"].doc.en.imagery[1] = tstrings[2]

(***************************************************************************)
(* C20.  Strictness of the schema.                                         *)
(***************************************************************************)
\* the source carries a key its schema does not declare, at the top level
\* or inside properties or attribution
HasUndeclaredProperty(source) ==
    \/ source.extra
    \/ source.properties.extra
    \/ source.properties.attribution.extra

\* C20: a document that carries any property the schema does not declare,
\* at the top level of the document or inside a nested object such as
\* properties or attribution, produces at least one violation, also when
\* all required fields are present and well-typed.
C20_Strict ==
    (Len(output) = 1 /\ HasUndeclaredProperty(input)) => output[1].value # <<>>

(***************************************************************************)
(* C21.  World scope.                                                      *)
(***************************************************************************)
\* the file lies under the directory `world` of resources/
UnderWorldDirectory(dir) == dir[1] = "world" /\ (Len(dir) = 1 \/ dir[2] = "/")

\* C21: a resource with no featureId whose file lies under the resources
\* `world` directory passes the feature-reference check whatever its type
\* and is added to the index; a resource whose file is not under that
\* directory is never treated as world-scope (without featureId and without
\* an exempt type it is refused).
C21_WorldScope ==
    (Len(output) = 1 /\ ~Truthy(input.resource.featureId)) =>
        /\ UnderWorldDirectory(input.dir) => output[1].value = "indexed"
        /\ (~UnderWorldDirectory(input.dir) /\ input.resource.type \notin ExemptTypes) =>
              output[1].value = "MissingFeatureId"

(***************************************************************************)
(* C22.  The order of the stages.                                          *)
(***************************************************************************)
\* C22: the stages run strictly in the order Loader, Rewriter, Emitter: no
\* source file is rewritten until every document has been loaded and has
\* passed all checks, so a build that aborts leaves every source file
\* byte-for-byte unchanged.
C22_StageOrder ==
    /\ written # {} => LoadComplete
    /\ status = "exit1" =>
          /\ written = {}
          /\ \A f \in SourceFiles : captured[f] # Unread => disk[f] = captured[f]

(***************************************************************************)
(* C23.  The first fatal error stops the build.                            *)
(***************************************************************************)
\* the source files in the order a build processes them
ProcessingOrder == FeatureFiles \o ResourceFiles

Place(file) == CHOOSE n \in 1..Len(ProcessingOrder) : ProcessingOrder[n] = file

\* the build has not touched the file
Untouched(file) ==
    /\ captured[file] = Unread
    /\ file \notin written
    /\ ~FileIndexed(ffiles, file)
    /\ ~FileIndexed(rfiles, file)

\* C23: after a document triggers any of the five errors no later document
\* of either collection is read, validated, rewritten or indexed, the
\* document itself is not indexed, and exactly one error is reported per
\* failed build.
C23_FirstErrorStops ==
    (stderr # <<>> \/ status = "exit1") =>
        /\ Len(stderr) = 1
        /\ stderr[1].kind \in FatalKinds
        /\ pc = "exited"
        /\ LET failing == stderr[1].files[Len(stderr[1].files)] IN
           /\ ~FileIndexed(ffiles, failing)
           /\ ~FileIndexed(rfiles, failing)
           /\ \A n \in 1..Len(ProcessingOrder) :
                 n > Place(failing) => Untouched(ProcessingOrder[n])

\* the last feature file has triggered an error and no resource file has
\* been read
C23_Witness ==
    /\ status = "exit1"
    /\ Len(stderr) = 1
    /\ stderr[1].kind = "DuplicateId"
    /\ stderr[1].files = <<FeatureFiles[1], FeatureFiles[NumFeatureFiles]>>
    /\ \A n \in 1..NumResourceFiles : Untouched(ResourceFiles[n])

(***************************************************************************)
(* C24.  Canonicalization preserves topology and identity.                 *)
(***************************************************************************)
\* the position moved by less than one unit of the 5th decimal digit
NearPosition(old, new) ==
    /\ Len(new) = Len(old)
    /\ \A c \in 1..Len(old) : Abs(new[c] - old[c]) < Step

\* the same points in the same cyclic order, the ring possibly reversed as a
\* whole
SameCycle(old, new) ==
    /\ Len(new) = Len(old)
    /\ \/ \A m \in 1..Len(old) : NearPosition(old[m], new[m])
       \/ \A m \in 1..Len(old) : NearPosition(old[Len(old) + 1 - m], new[m])

\* the same rings in the same places, the outer ring first
SamePolygon(old, new) ==
    /\ Len(new) = Len(old)
    /\ \A r \in 1..Len(old) : SameCycle(old[r], new[r])

PreservedGeometry(old, new) ==
    /\ new.type = old.type
    /\ CASE old.type = "Point" -> NearPosition(old.coordinates, new.coordinates)
         [] old.type = "Polygon" -> SamePolygon(old.coordinates, new.coordinates)
         [] old.type = "MultiPolygon" ->
              /\ Len(new.coordinates) = Len(old.coordinates)
              /\ \A p \in 1..Len(old.coordinates) :
                    SamePolygon(old.coordinates[p], new.coordinates[p])
         [] OTHER -> new = old

RECURSIVE PreservedDocument(_, _)
PreservedDocument(old, new) ==
    /\ new.type = old.type
    /\ new.id = old.id
    /\ new.extra = old.extra
    /\ PreservedGeometry(old.geometry, new.geometry)
    /\ Len(new.features) = Len(old.features)
    /\ \A m \in 1..Len(old.features) :
          PreservedDocument(old.features[m], new.features[m])

\* C24: canonicalization leaves the number of polygons, the number of rings
\* per polygon, the place of the outer ring, the number of points per ring
\* and the cyclic order of the points of each ring (up to reversal of the
\* whole ring) unchanged, and the id and properties of the feature too; only
\* coordinate precision and whole-ring direction may differ.
C24_Topology ==
    Len(output) >= 1 => PreservedDocument(input, output[1].value)

\* a multipolygon was canonicalized: a polygon with a hole had its outer
\* ring reversed and kept its rings in place
C24_Witness ==
    /\ Len(output) >= 1
    /\ input.geometry.type = "MultiPolygon"
    /\ \E p \in 1..Len(input.geometry.coordinates) :
          LET old == input.geometry.coordinates[p]
              new == output[1].value.geometry.coordinates[p]
          IN  /\ Len(old) = 2
              /\ Len(new) = 2
              /\ new[1] = Reverse(old[1])
              /\ new[1] # old[1]

(***************************************************************************)
(* C25.  The feature index is complete before the first resource.          *)
(***************************************************************************)
\* every feature file has been read and its document is in the feature
\* index under its id
FeatureIndexComplete ==
    \A m \in 1..NumFeatureFiles :
        /\ FeatureRead(m)
        /\ InIndex(features, ffiles, ToKey(FeatureDoc(m).id), FeatureDoc(m),
                   FeatureFiles[m])

\* C25: the feature index is complete before the first resource is
\* processed, so a resource is looked up against all the features of the
\* build: an unknown-feature error is never caused by a feature that exists
\* in a feature file but is not yet loaded.
C25_IndexComplete ==
    /\ (pc = "resources" \/ \E n \in 1..NumResourceFiles : ResourceRead(n)) =>
          FeatureIndexComplete
    /\ (status = "exit1" /\ stderr[1].kind = "UnknownFeature") =>
          /\ FeatureIndexComplete
          /\ \A m \in 1..NumFeatureFiles :
                ToKey(FeatureDoc(m).id) # ToKey(stderr[1].what)

\* the first resource names the feature of the last feature file and has
\* been indexed
C25_Witness ==
    /\ ResourceRead(1)
    /\ Truthy(ResourceDoc(1).featureId)
    /\ ResourceDoc(1).featureId = FeatureDoc(NumFeatureFiles).id
    /\ ResourceDoc(1).featureId # FeatureDoc(1).id
    /\ FileIndexed(rfiles, ResourceFiles[1])

(***************************************************************************)
(* The build as a function of the order in which glob.sync lists the files *)
(* of each collection.                                                     *)
(***************************************************************************)
\* the process when buildAll is entered
Entered ==
    [status |-> "running", features |-> <<>>, ffiles |-> <<>>,
     resources |-> <<>>, rfiles |-> <<>>, tstrings |-> <<>>,
     stderr |-> <<>>, written |-> {}]

\* console.error(diagnostic); process.exit(1)
Exited1(s, diagnostic) ==
    [s EXCEPT !.status = "exit1", !.stderr = Append(@, diagnostic)]

\* build.js 48-73: the callback of generateFeatures for feature file n
FeatureStep(s, n, contents) ==
    LET file == FeatureFiles[n]
        feature == Unwrap(Canonicalize(JSONParse(contents)))
        validationErrors == FeatureViolations(feature)
        id == ToKey(feature.id)
        w == [s EXCEPT !.written =
                 IF prettifyFile(feature, contents) THEN @ \cup {file} ELSE @]
    IN  IF validateFile(file, validationErrors)
        THEN Exited1(s, Diagnostic("Schema", "", <<file>>, validationErrors))
        ELSE IF IsDuplicate(s.ffiles, id)
        THEN Exited1(w, DuplicateDiagnostic(s.ffiles, id, file))
        ELSE [w EXCEPT !.features = SetProperty(@, id, feature),
                       !.ffiles = SetProperty(@, id, file)]

\* part_008 83-138: the callback of generateResources for resource file n
ResourceStep(s, n, contents) ==
    LET file == ResourceFiles[n]
        resource == JSONParse(contents)
        validationErrors == ResourceViolations(resource)
        resourceId == ToKey(resource.id)
        w == [s EXCEPT !.written =
                 IF prettifyFile(resource, contents) THEN @ \cup {file} ELSE @]
    IN  IF validateFile(file, validationErrors)
        THEN Exited1(s, Diagnostic("Schema", "", <<file>>, validationErrors))
        ELSE IF IsDuplicate(s.rfiles, resourceId)
        THEN Exited1(w, DuplicateDiagnostic(s.rfiles, resourceId, file))
        ELSE IF HasBadToken(resource.url)
        THEN Exited1(w, Diagnostic("BadToken", "", <<file>>, resource.url))
        ELSE IF IsUnknownFeature(s.features, resource.featureId)
        THEN Exited1(w, Diagnostic("UnknownFeature", resource.featureId, <<file>>, <<>>))
        ELSE IF IsMissingFeatureId(resource, file)
        THEN Exited1(w, Diagnostic("MissingFeatureId", "", <<file>>, <<>>))
        ELSE [w EXCEPT !.resources = SetProperty(@, resourceId, resource),
                       !.rfiles = SetProperty(@, resourceId, file),
                       !.tstrings =
                           IF resource.i18n
                           THEN SetProperty(@, resourceId, TranslationStrings(resource))
                           ELSE @]

\* build.js 46-73: glob.sync(...).forEach over the feature files, from the
\* k-th of the listing on; process.exit ends the loop
RECURSIVE generateFeatures(_, _, _, _)
generateFeatures(s, listing, contents, k) ==
    IF k > Len(listing) \/ s.status # "running"
    THEN s
    ELSE generateFeatures(FeatureStep(s, listing[k], contents[listing[k]]),
                          listing, contents, k + 1)

\* part_008 81-138: the same over the resource files
RECURSIVE generateResources(_, _, _, _)
generateResources(s, listing, contents, k) ==
    IF k > Len(listing) \/ s.status # "running"
    THEN s
    ELSE generateResources(ResourceStep(s, listing[k], contents[listing[k]]),
                           listing, contents, k + 1)

\* build.js 22-41: the features, then the resources, then status 0
buildAll(flisting, rlisting, fcontents, rcontents) ==
    LET loaded == generateResources(
                      generateFeatures(Entered, flisting, fcontents, 1),
                      rlisting, rcontents, 1)
    IN  IF loaded.status = "running"
        THEN [loaded EXCEPT !.status = "exit0"]
        ELSE loaded

\* the listings glob.sync could give: the files of a collection in any order
Listings(count) == Permutations(1..count)

\* the listing the build gets: the files in their place
Sorted(count) == [n \in 1..count |-> n]

OrderFeatureContents ==
    { PrettyStringify(Feature("a", RingCanonical, FALSE)),
      Raw(Feature("b", RingUnrounded, FALSE)),
      PrettyStringify(Feature("constructor", RingCanonical, FALSE)),
      PrettyStringify(Feature("a", RingCanonical, TRUE)) }

OrderResourceContents ==
    { PrettyStringify(Resource("a", "tms", UrlZoom, "a")),
      PrettyStringify(Resource("b", "tms", UrlZoom, "a")),
      PrettyStringify(Resource("a", "tms", UrlZ, "a")),
      PrettyStringify(Resource("c", "tms", UrlZoom, "b")),
      PrettyStringify(Resource("a", "tms", UrlZoom, Undefined)) }

OrderInputs ==
    [fcontents : [1..NumFeatureFiles -> OrderFeatureContents],
     rcontents : [1..NumResourceFiles -> OrderResourceContents],
     flisting : Listings(NumFeatureFiles),
     rlisting : Listings(NumResourceFiles)]

OrderInit ==
    /\ Started
    /\ artifacts = [a \in ArtifactSet |-> Absent]
    /\ input \in OrderInputs
    /\ output = <<>>

\* the build over the files in their place
CallBuildSorted ==
    /\ Len(output) = 0
    /\ output' = <<Call("buildAll",
                        buildAll(Sorted(NumFeatureFiles), Sorted(NumResourceFiles),
                                 input.fcontents, input.rcontents))>>
    /\ UNCHANGED <<buildVars, input>>

\* the build over the same files in the other listing
CallBuildListed ==
    /\ Len(output) = 1
    /\ output' = Append(output,
                        Call("buildAll",
                             buildAll(input.flisting, input.rlisting,
                                      input.fcontents, input.rcontents)))
    /\ UNCHANGED <<buildVars, input>>

OrderNext == CallBuildSorted \/ CallBuildListed

OrderSpec == OrderInit /\ [][OrderNext]_vars

\* the build of the actions ends as buildAll does on the files it read
BuildAgreesWithBuildAll ==
    pc = "exited" =>
        LET o == buildAll(Sorted(NumFeatureFiles), Sorted(NumResourceFiles),
                          [n \in 1..NumFeatureFiles |-> captured[FeatureFiles[n]]],
                          [n \in 1..NumResourceFiles |-> captured[ResourceFiles[n]]])
        IN  /\ o.status = status
            /\ o.features = features
            /\ o.ffiles = ffiles
            /\ o.resources = resources
            /\ o.rfiles = rfiles
            /\ o.tstrings = tstrings
            /\ o.stderr = stderr
            /\ o.written = written

(***************************************************************************)
(* C26.  The outcome does not depend on the processing order.              *)
(***************************************************************************)
\* an index as a mapping: its set of entries
Mapping(index) == {index[n] : n \in 1..Len(index)}

\* both succeed with the same id-to-document mappings, or both abort
SameOutcome(one, other) ==
    /\ one.status = other.status
    /\ one.status = "exit0" =>
          /\ Mapping(one.features) = Mapping(other.features)
          /\ Mapping(one.resources) = Mapping(other.resources)

\* C26: for every document set and every two processing orders of the
\* feature files and of the resource files, either both builds succeed with
\* the same id-to-document mappings or both abort (possibly reporting a
\* different offending file).
C26_OrderIndependent ==
    Len(output) = 2 => SameOutcome(output[1].value, output[2].value)

\* the same files were built in two different orders and the build aborted
\* on a different file in each
C26_Witness ==
    /\ Len(output) = 2
    /\ input.flisting # Sorted(NumFeatureFiles)
    /\ input.rlisting # Sorted(NumResourceFiles)
    /\ output[1].value.status = "exit1"
    /\ output[2].value.status = "exit1"
    /\ output[1].value.stderr[1].files # output[2].value.stderr[1].files

(***************************************************************************)
(* C27.  A duplicate-id error has no false positives.                      *)
(***************************************************************************)
\* the build has aborted with a duplicate-id error on this file
DuplicateRaisedOn(file) ==
    /\ AbortedOn(file)
    /\ stderr[1].kind = "DuplicateId"

\* C27: a duplicate-id error is raised only if an earlier-processed file of
\* the same collection declared exactly the same id: the first document
\* processed never raises it whatever its id string is, and a resource whose
\* id equals the id of a feature is not a duplicate.
C27_NoFalseDuplicate ==
    /\ \A n \in 1..NumFeatureFiles :
          DuplicateRaisedOn(FeatureFiles[n]) => FeatureIdTaken(n)
    /\ \A n \in 1..NumResourceFiles :
          DuplicateRaisedOn(ResourceFiles[n]) => ResourceIdTaken(n)
    /\ ~DuplicateRaisedOn(FeatureFiles[1])
    /\ ~DuplicateRaisedOn(ResourceFiles[1])

(***************************************************************************)
(* C28.  A file is rewritten only after its document passed validation.    *)
(***************************************************************************)
\* the violations validateFile finds in the document of a source file
ViolationsOf(file) ==
    IF \E n \in 1..NumFeatureFiles : FeatureFiles[n] = file
    THEN FeatureViolations(objects[file])
    ELSE ResourceViolations(objects[file])

\* the checks a document meets after validateFile and prettifyFile
LaterChecks == {"DuplicateId", "BadToken", "UnknownFeature", "MissingFeatureId"}

\* C28: a source file is rewritten only after its document has passed schema
\* validation: a document that fails validation is never overwritten,
\* whereas a document that passes validation but then fails the
\* duplicate-id, bad-token, unresolved-feature or missing-feature-id check
\* has already been rewritten when the build aborts.
C28_RewriteAfterValidation ==
    \A file \in SourceFiles :
        /\ file \in written => ViolationsOf(file) = <<>>
        /\ (captured[file] # Unread /\ ViolationsOf(file) # <<>>) =>
              /\ file \notin written
              /\ disk[file] = captured[file]
              /\ AbortedOn(file)
              /\ stderr[1].kind = "Schema"
        /\ (AbortedOn(file) /\ stderr[1].kind \in LaterChecks) =>
              /\ ViolationsOf(file) = <<>>
              /\ disk[file] = PrettyStringify(objects[file])
              /\ captured[file] # PrettyStringify(objects[file]) => file \in written

\* a file that was not in canonical form passed validation, was rewritten,
\* and the build aborted on one of its later checks
C28_Witness ==
    \E file \in SourceFiles :
        /\ AbortedOn(file)
        /\ stderr[1].kind \in LaterChecks
        /\ captured[file] # PrettyStringify(objects[file])
        /\ file \in written
        /\ disk[file] # captured[file]

(***************************************************************************)
(* C29.  Every build starts clean.                                         *)
(***************************************************************************)
\* none of the five artifacts is on disk
NoArtifact == \A a \in ArtifactSet : artifacts[a] = Absent

\* C29: every build starts by deleting the artifacts of the previous build,
\* before any document is read; an artifact on disk after that is one this
\* build wrote, so after a build that aborts none of the five artifacts
\* exists on disk.
C29_StartClean ==
    /\ (\E file \in SourceFiles : captured[file] # Unread) =>
          \A a \in ArtifactSet : a \notin emitted => artifacts[a] = Absent
    /\ pc \in {"features", "resources"} => NoArtifact
    /\ status = "exit1" => NoArtifact

\* the build after a successful one has deleted the five artifacts that
\* build left and has read its first document
C29_Witness ==
    /\ build = 2
    /\ \A a \in ArtifactSet : history[1].artifacts[a] \notin {Absent, Stale}
    /\ captured[FeatureFiles[1]] # Unread
    /\ NoArtifact

(***************************************************************************)
(* C30.  After a successful build the files and the indices agree.         *)
(***************************************************************************)
\* the file holds the canonical pretty serialization of the entry the index
\* has under the id of the file's document, and that entry is the file's
FileAgrees(index, files, file) ==
    LET id == ToKey(JSONParse(disk[file]).id)
    IN  /\ HasOwn(index, id)
        /\ disk[file] = PrettyStringify(OwnValue(index, id))
        /\ HasOwn(files, id)
        /\ OwnValue(files, id) = file

\* C30: after a successful build, for every feature file and every resource
\* file, the file's content on disk is exactly the canonical pretty
\* serialization of the document stored in the index under that document's
\* id, and each index has exactly one entry per source file of its
\* collection.
C30_FilesAgree ==
    status = "exit0" =>
        /\ \A n \in 1..NumFeatureFiles : FileAgrees(features, ffiles, FeatureFiles[n])
        /\ \A n \in 1..NumResourceFiles : FileAgrees(resources, rfiles, ResourceFiles[n])
        /\ Len(features) = NumFeatureFiles
        /\ Len(resources) = NumResourceFiles
        /\ Len(ffiles) = NumFeatureFiles
        /\ Len(rfiles) = NumResourceFiles

\* a build has succeeded after rewriting a feature file and a resource file
\* that were not in canonical form
C30_Witness ==
    /\ status = "exit0"
    /\ \E n \in 1..NumFeatureFiles :
          /\ FeatureFiles[n] \in written
          /\ captured[FeatureFiles[n]] # disk[FeatureFiles[n]]
          /\ captured[FeatureFiles[n]].fmt = "pretty"
    /\ \E n \in 1..NumResourceFiles :
          /\ ResourceFiles[n] \in written
          /\ captured[ResourceFiles[n]] # disk[ResourceFiles[n]]

====
